---- MODULE Spec2Model ----
(***************************************************************************)
(* Model of the beacon hybrid text-matching engine (src/beacon.go).        *)
(*                                                                         *)
(* A Go string is a sequence of one-character strings.  The modelled       *)
(* alphabet is ASCII, where a byte is a character, NFC normalisation       *)
(* changes nothing and len() is the number of characters.  A float64 score *)
(* is an exact non-negative rational [n |-> numerator, d |-> denominator]  *)
(* in lowest terms.  A Go pointer or interface that may be nil is a        *)
(* sequence of length 0 (nil) or 1.                                        *)
(***************************************************************************)
EXTENDS Integers, Sequences, FiniteSets, TLC

(***************************************************************************)
(* Rational arithmetic standing for float64.                               *)
(***************************************************************************)
RECURSIVE GCD(_, _)
GCD(a, b) == IF b = 0 THEN a ELSE GCD(b, a % b)

Frac(a, b) == LET g == GCD(a, b) IN [n |-> a \div g, d |-> b \div g]

Zero == Frac(0, 1)
One == Frac(1, 1)

RAdd(x, y) ==
    LET g == GCD(x.d, y.d)
        l == (x.d \div g) * y.d
    IN  Frac(x.n * (l \div x.d) + y.n * (l \div y.d), l)

RMul(x, y) ==
    LET g1 == GCD(x.n, y.d)
        g2 == GCD(y.n, x.d)
    IN  Frac((x.n \div g1) * (y.n \div g2), (x.d \div g2) * (y.d \div g1))

RDiv(x, y) == RMul(x, [n |-> y.d, d |-> y.n])

\* 1 - x, for 0 <= x <= 1
ROneMinus(x) == Frac(x.d - x.n, x.d)

\* a/b < c/d by comparing the continued fractions, so that no product is formed
RECURSIVE FracLess(_, _, _, _)
FracLess(a, b, c, d) ==
    IF (a \div b) # (c \div d) THEN (a \div b) < (c \div d)
    ELSE IF c % d = 0 THEN FALSE
    ELSE IF a % b = 0 THEN TRUE
    ELSE FracLess(d, c % d, b, a % b)

RLess(x, y) == FracLess(x.n, x.d, y.n, y.d)
RLeq(x, y) == ~RLess(y, x)
\* RMin that does not clamp: its first argument
RMinFirst(x, y) == x

RMin(x, y) == IF RLess(y, x) THEN y ELSE x
IsPositive(x) == x.n > 0

(***************************************************************************)
(* strings, unicode: the library calls the source makes.                   *)
(***************************************************************************)
UpperLetters ==
    <<"A", "B", "C", "D", "E", "F", "G", "H", "I", "J", "K", "L", "M",
      "N", "O", "P", "Q", "R", "S", "T", "U", "V", "W", "X", "Y", "Z">>

LowerLetters ==
    <<"a", "b", "c", "d", "e", "f", "g", "h", "i", "j", "k", "l", "m",
      "n", "o", "p", "q", "r", "s", "t", "u", "v", "w", "x", "y", "z">>

IsUpper(c) == \E i \in 1..Len(UpperLetters) : UpperLetters[i] = c

IsSpace(c) == c \in {" ", "\t"}

ToLowerChar(c) ==
    IF IsUpper(c)
    THEN LowerLetters[CHOOSE i \in 1..Len(UpperLetters) : UpperLetters[i] = c]
    ELSE c

ToLower(s) == [i \in 1..Len(s) |-> ToLowerChar(s[i])]

\* strings.FieldsFunc: the maximal runs of characters that are no separator
FieldsFunc(s, seps) ==
    LET RECURSIVE Scan(_, _, _)
        Scan(i, cur, acc) ==
            IF i > Len(s)
            THEN IF cur = <<>> THEN acc ELSE Append(acc, cur)
            ELSE IF s[i] \in seps
            THEN Scan(i + 1, <<>>, IF cur = <<>> THEN acc ELSE Append(acc, cur))
            ELSE Scan(i + 1, Append(cur, s[i]), acc)
    IN  Scan(1, <<>>, <<>>)

Fields(s) == FieldsFunc(s, {" ", "\t"})

RECURSIVE Join(_, _)
Join(parts, sep) ==
    IF parts = <<>> THEN <<>>
    ELSE IF Len(parts) = 1 THEN parts[1]
    ELSE parts[1] \o sep \o Join(Tail(parts), sep)

TrimSpaceIsEmpty(s) == \A i \in 1..Len(s) : IsSpace(s[i])

HasPrefix(s, prefix) ==
    Len(prefix) <= Len(s) /\ SubSeq(s, 1, Len(prefix)) = prefix

Contains(s, substr) ==
    \E i \in 0..(Len(s) - Len(substr)) : SubSeq(s, i + 1, i + Len(substr)) = substr

Repeat(c, k) == [i \in 1..k |-> c]

(***************************************************************************)
(* Utility functions of beacon.go.                                         *)
(***************************************************************************)
normalizeText(text) == Join(Fields(text), <<" ">>)

extractWords(text) == FieldsFunc(text, {" ", "\t", "-", ",", "."})

createWordSet(words) == {words[i] : i \in 1..Len(words)}

\* createCharNgrams that gives a text shorter than n no n-gram at all
createCharNgramsShortEmpty(text, n) ==
    IF Len(text) < n THEN {}
    ELSE {SubSeq(Repeat("#", n - 1) \o text \o Repeat("#", n - 1), k + 1, k + n) :
              k \in 0..(Len(text) + n - 2)}

createCharNgrams(text, n) ==
    IF Len(text) < n THEN {text}
    ELSE LET padding == Repeat("#", n - 1)
             padded == padding \o text \o padding
         IN  {SubSeq(padded, i + 1, i + n) : i \in 0..(Len(padded) - n)}

extractFirstLetters(words) == [i \in 1..Len(words) |-> words[i][1]]

StopWords ==
    {<<"d", "e">>, <<"d", "e", "l">>, <<"l", "a">>, <<"e", "l">>,
     <<"l", "o", "s">>, <<"l", "a", "s">>, <<"y">>, <<"e">>,
     <<"o", "f">>, <<"t", "h", "e">>, <<"a", "n", "d">>, <<"o", "r">>}

extractAcronym(text) ==
    LET words == Fields(text)
        RECURSIVE Collect(_, _)
        Collect(i, acronym) ==
            IF i > Len(words) THEN acronym
            ELSE IF ToLower(words[i]) \in StopWords THEN Collect(i + 1, acronym)
            ELSE IF IsUpper(words[i][1]) THEN Collect(i + 1, Append(acronym, words[i][1]))
            ELSE Collect(i + 1, acronym)
    IN  ToLower(Collect(1, <<>>))

calculateJaccardSimilarity(set1, set2) ==
    IF set1 = {} /\ set2 = {} THEN One
    ELSE IF set1 = {} \/ set2 = {} THEN Zero
    ELSE LET intersection == Cardinality(set1 \cap set2)
             union == Cardinality(set1) + Cardinality(set2) - intersection
         IN  IF union = 0 THEN Zero ELSE Frac(intersection, union)

\* min that leaves out its third value, the substitution
minOfTwo(a, b, c) == IF b < a THEN b ELSE a

min(a, b, c) ==
    LET ab == IF b < a THEN b ELSE a
    IN  IF c < ab THEN c ELSE ab

max(a, b) == IF a > b THEN a ELSE b

\* the matrix dist is filled row by row; a row is dist[i][0..len2]
calculateLevenshteinDistance(s1, s2) ==
    LET len1 == Len(s1)
        len2 == Len(s2)
        RECURSIVE FillRow(_, _, _, _)
        FillRow(i, j, prev, row) ==
            IF j > len2 THEN row
            ELSE LET cost == IF s1[i] # s2[j] THEN 1 ELSE 0
                 IN  FillRow(i, j + 1, prev,
                             Append(row, min(prev[j + 1] + 1, row[j] + 1, prev[j] + cost)))
        RECURSIVE Rows(_, _)
        Rows(i, prev) ==
            \* (comparing prev makes TLC compute a row before it descends to the next)
            IF i > len1 \/ prev = <<>> THEN prev
            ELSE Rows(i + 1, FillRow(i, 1, prev, <<i>>))
    IN  IF s1 = s2 THEN 0
        ELSE IF len1 = 0 THEN len2
        ELSE IF len2 = 0 THEN len1
        ELSE Rows(1, [j \in 1..(len2 + 1) |-> j - 1])[len2 + 1]

(***************************************************************************)
(* fmt.Sprintf verbs the source uses.                                      *)
(***************************************************************************)
DigitChars == <<"0", "1", "2", "3", "4", "5", "6", "7", "8", "9">>

\* %d of a non-negative integer
RECURSIVE FormatInt(_)
FormatInt(k) ==
    IF k < 10 THEN <<DigitChars[k + 1]>>
    ELSE Append(FormatInt(k \div 10), DigitChars[(k % 10) + 1])

\* %.2f of a non-negative rational: two decimals, rounded to nearest (ties to even)
FormatFloat2(x) ==
    LET whole == x.n \div x.d
        rest == x.n % x.d
        cents == (rest * 100) \div x.d
        left == (rest * 100) % x.d
        up == (2 * left > x.d) \/ (2 * left = x.d /\ cents % 2 = 1)
        total == whole * 100 + cents + (IF up THEN 1 ELSE 0)
    IN  FormatInt(total \div 100) \o <<".">>
          \o <<DigitChars[((total % 100) \div 10) + 1], DigitChars[(total % 10) + 1]>>

Percent(score) == RMul(score, Frac(100, 1))

(***************************************************************************)
(* Searchable items and filters (the caller's side of the interfaces).     *)
(***************************************************************************)
GetSearchText(item) == item.Title

GetSearchFields(item) == [genre |-> item.Genre]

\* README's GenreFilter, the documented Filter implementation
Matches(filter, item) ==
    /\ "genre" \in DOMAIN GetSearchFields(item)
    /\ GetSearchFields(item)["genre"] = filter.TargetGenre

Description(filter) ==
    <<"g", "e", "n", "r", "e", " ", "i", "s", " ", "'">> \o filter.TargetGenre \o <<"'">>

(***************************************************************************)
(* ScoreComponents and calculateScore.                                     *)
(***************************************************************************)
weights ==
    [exact |-> Frac(100, 100), prefix |-> Frac(90, 100), word |-> Frac(85, 100),
     substring |-> Frac(75, 100), trigram |-> Frac(60, 100), bigram |-> Frac(40, 100),
     acronym |-> Frac(70, 100), levenshtein |-> Frac(50, 100)]

ExactMatchOf(idx, queryLower) ==
    IF idx.LowercaseText = queryLower THEN One ELSE Zero

PrefixMatchOf(idx, queryLower) ==
    IF HasPrefix(idx.LowercaseText, queryLower) THEN Frac(9, 10)
    ELSE IF Len(queryLower) >= 3 /\ HasPrefix(idx.LowercaseText, SubSeq(queryLower, 1, 3))
    THEN Frac(5, 10)
    ELSE Zero

WordMatchOf(idx, queryWords) ==
    LET totalWords == Len(queryWords)
        matchedWords ==
            Cardinality({k \in 1..totalWords :
                \E m \in 1..Len(idx.Words) :
                    \/ idx.Words[m] = queryWords[k]
                    \/ Len(queryWords[k]) >= 3 /\ HasPrefix(idx.Words[m], queryWords[k])})
    IN  IF totalWords > 0
        THEN IF matchedWords = totalWords
             THEN RMin(RMul(Frac(matchedWords, totalWords), Frac(12, 10)), One)
             ELSE Frac(matchedWords, totalWords)
        ELSE Zero

SubstringMatchOf(idx, queryLower) ==
    IF Contains(idx.LowercaseText, queryLower)
    THEN RAdd(Frac(7, 10), RMul(Frac(3, 10), Frac(Len(queryLower), idx.TextLength)))
    ELSE Zero

AcronymMatchOf(idx, queryAcronym) ==
    IF queryAcronym # <<>> /\ queryAcronym = idx.Acronym THEN Frac(8, 10) ELSE Zero

LevenshteinSimOf(idx, queryLower) ==
    LET levDist == calculateLevenshteinDistance(queryLower, idx.LowercaseText)
        maxLen == max(Len(queryLower), idx.TextLength)
    IN  IF maxLen > 0 THEN ROneMinus(Frac(levDist, maxLen)) ELSE Zero

\* the (value, weight) pairs in the order the source adds them
Weighted(c) ==
    <<<<c.ExactMatch, weights.exact>>, <<c.PrefixMatch, weights.prefix>>,
      <<c.WordMatch, weights.word>>, <<c.SubstringMatch, weights.substring>>,
      <<c.TrigramSimilarity, weights.trigram>>, <<c.BigramSimilarity, weights.bigram>>,
      <<c.AcronymMatch, weights.acronym>>, <<c.LevenshteinSim, weights.levenshtein>>>>

RECURSIVE WeightedSum(_)
WeightedSum(pairs) ==
    IF pairs = <<>> THEN Zero
    ELSE IF IsPositive(pairs[1][1])
    THEN RAdd(RMul(pairs[1][1], pairs[1][2]), WeightedSum(Tail(pairs)))
    ELSE WeightedSum(Tail(pairs))

\* TotalWeight that counts the weight of every component, 0 or not
RECURSIVE TotalWeightAll(_)
TotalWeightAll(pairs) ==
    IF pairs = <<>> THEN Zero
    ELSE RAdd(pairs[1][2], TotalWeightAll(Tail(pairs)))

RECURSIVE TotalWeight(_)
TotalWeight(pairs) ==
    IF pairs = <<>> THEN Zero
    ELSE IF IsPositive(pairs[1][1])
    THEN RAdd(pairs[1][2], TotalWeight(Tail(pairs)))
    ELSE TotalWeight(Tail(pairs))

FinalScoreOf(c, queryLower) ==
    LET totalWeight == TotalWeight(Weighted(c))
        weightedSum == WeightedSum(Weighted(c))
        base == RDiv(weightedSum, totalWeight)
        short == IF Len(queryLower) <= 10 /\ IsPositive(c.ExactMatch) THEN One ELSE base
    IN  IF IsPositive(totalWeight)
        THEN IF RLeq(Frac(8, 10), c.WordMatch) /\ IsPositive(c.SubstringMatch)
             THEN RMin(RMul(short, Frac(11, 10)), One)
             ELSE short
        ELSE Zero

calculateScore(idx, queryLower, queryWords, queryWordSet, queryTrigrams, queryBigrams, queryAcronym) ==
    LET c == [ExactMatch |-> ExactMatchOf(idx, queryLower),
              PrefixMatch |-> PrefixMatchOf(idx, queryLower),
              WordMatch |-> WordMatchOf(idx, queryWords),
              SubstringMatch |-> SubstringMatchOf(idx, queryLower),
              TrigramSimilarity |-> calculateJaccardSimilarity(queryTrigrams, idx.Trigrams),
              BigramSimilarity |-> calculateJaccardSimilarity(queryBigrams, idx.Bigrams),
              AcronymMatch |-> AcronymMatchOf(idx, queryAcronym),
              LevenshteinSim |-> LevenshteinSimOf(idx, queryLower)]
    IN  [ExactMatch |-> c.ExactMatch, PrefixMatch |-> c.PrefixMatch,
         WordMatch |-> c.WordMatch, SubstringMatch |-> c.SubstringMatch,
         TrigramSimilarity |-> c.TrigramSimilarity,
         BigramSimilarity |-> c.BigramSimilarity, AcronymMatch |-> c.AcronymMatch,
         LevenshteinSim |-> c.LevenshteinSim, FinalScore |-> FinalScoreOf(c, queryLower)]

(***************************************************************************)
(* SearchIndex: the data precomputed per item by NewImprovedSearcher.      *)
(***************************************************************************)
NewSearchIndex(item) ==
    LET searchText == GetSearchText(item)
        normalizedText == normalizeText(searchText)
        lowercaseText == ToLower(normalizedText)
        words == extractWords(lowercaseText)
    IN  [Item |-> item,
         NormalizedText |-> normalizedText,
         LowercaseText |-> lowercaseText,
         Words |-> words,
         WordSet |-> createWordSet(words),
         Trigrams |-> createCharNgrams(lowercaseText, 3),
         Bigrams |-> createCharNgrams(lowercaseText, 2),
         FirstLetters |-> extractFirstLetters(words),
         Acronym |-> extractAcronym(searchText),
         TextLength |-> Len(lowercaseText)]

\* the query-side values Search prepares before filtering
PrepareQuery(query) ==
    LET normalizedQuery == normalizeText(query)
        lowercaseQuery == ToLower(normalizedQuery)
        queryWords == extractWords(lowercaseQuery)
    IN  [normalizedQuery |-> normalizedQuery,
         lowercaseQuery |-> lowercaseQuery,
         queryWords |-> queryWords,
         queryWordSet |-> createWordSet(queryWords),
         queryTrigrams |-> createCharNgrams(lowercaseQuery, 3),
         queryBigrams |-> createCharNgrams(lowercaseQuery, 2),
         queryAcronym |-> extractAcronym(query)]

ScoreFor(idx, query) ==
    LET q == PrepareQuery(query)
    IN  calculateScore(idx, q.lowercaseQuery, q.queryWords, q.queryWordSet,
                       q.queryTrigrams, q.queryBigrams, q.queryAcronym)

(***************************************************************************)
(* Bounds and the inputs the model draws from.                             *)
(***************************************************************************)
MaxItems == 2

Fantasy == <<"F", "a", "n", "t", "a", "s", "y">>
Tech == <<"T", "e", "c", "h">>
Morse == <<"M", "o", "r", "s", "e">>
Word == <<"W", "o", "r", "d">>

Book(title, genre) == [Title |-> title, Genre |-> genre]

GoBook ==
    Book(<<"T", "h", "e", " ", "G", "o", " ", "P", "r", "o", "g", "r", "a", "m", "m",
           "i", "n", "g", " ", "L", "a", "n", "g", "u", "a", "g", "e">>, Tech)

RingsBook ==
    Book(<<"T", "h", "e", " ", "L", "o", "r", "d", " ", "o", "f", " ", "t", "h", "e",
           " ", "R", "i", "n", "g", "s">>, Fantasy)

\* two texts without any word: only separators of extractWords
Dashes14 ==
    Book(<<"-", "-", ".", "-", "-", "-", "-", "-", "-", "-", "-", "-", "-", "-">>, Morse)

Dashes15 ==
    Book(<<"-", "-", "-", ".", "-", "-", "-", "-", "-", "-", "-", "-", "-", "-", "-">>,
         Morse)

ItemPool == {GoBook, RingsBook, Dashes14, Dashes15}

\* a dataset with more than ten items, all of different length
Dictionary ==
    <<Book(<<"G", "o">>, Word),
      Book(<<"G", "o", "d">>, Word),
      Book(<<"G", "o", "l", "d">>, Word),
      Book(<<"G", "o", "l", "e", "m">>, Word),
      Book(<<"G", "o", "b", "l", "i", "n">>, Word),
      Book(<<"G", "o", "d", "d", "e", "s", "s">>, Word),
      Book(<<"G", "o", "l", "d", "f", "i", "s", "h">>, Word),
      Book(<<"G", "o", "n", "d", "o", "l", "i", "e", "r">>, Word),
      Book(<<"G", "o", "v", "e", "r", "n", "m", "e", "n", "t">>, Word),
      Book(<<"G", "o", "a", "l", "k", "e", "e", "p", "e", "r", "s">>, Word),
      Book(<<"G", "o", "b", "b", "l", "e", "d", "y", "g", "o", "o", "k">>, Word)>>

Datasets == (UNION {[1..k -> ItemPool] : k \in 0..MaxItems}) \cup {Dictionary}

Queries ==
    {<<>>,
     <<" ", "\t">>,
     <<"l", "o", "t", "r">>,
     <<"g", "o", " ", " ", "l", "a", "n", "g">>,
     <<"G", "o">>,
     GetSearchText(RingsBook),
     GetSearchText(Dashes14)}

GenreFilter(genre) == [TargetGenre |-> genre]

FilterChoices == {<<>>, <<GenreFilter(Fantasy)>>, <<GenreFilter(Tech)>>}

TopNChoices == {<<>>, <<0>>, <<2>>, <<11>>}

DebugChoices == {<<>>, <<TRUE>>}

MinSimilarityChoices == {Frac(3, 10), Frac(19, 10)}

Requests ==
    [Query : Queries, Filters : FilterChoices, TopN : TopNChoices, Debug : DebugChoices]

Callers == {"c1", "c2"}

(***************************************************************************)
(* State.                                                                  *)
(***************************************************************************)
VARIABLES
    items,          \* ImprovedSearcher.items
    searchIndex,    \* ImprovedSearcher.searchIndex
    debugMode,      \* ImprovedSearcher.debugMode
    minSimilarity,  \* ImprovedSearcher.minSimilarity
    pc,             \* per caller: where its Search call stands
    req,            \* per caller: the SearchRequest of the call
    candidates,     \* per caller: Search's local candidates
    results,        \* per caller: Search's local results (scoredResult values)
    i,              \* per caller: the index of the running loop (from 1)
    topN,           \* per caller: Search's local topN
    responses,      \* per caller: Search's local responses
    outcome,        \* per caller: the value Search returned (nil before)
    obs,            \* per caller: what the call did so far (history)
    call            \* a utility function called on its own: inputs and result

engine == <<items, searchIndex, debugMode, minSimilarity>>
locals == <<pc, req, candidates, results, i, topN, responses, outcome, obs>>
vars == <<items, searchIndex, debugMode, minSimilarity,
          pc, req, candidates, results, i, topN, responses, outcome, obs, call>>

NoRequest == [Query |-> <<>>, Filters |-> <<>>, TopN |-> <<>>, Debug |-> <<>>]

\* history of one call: Matches and calculateScore invocations, the values of
\* minSimilarity and debugMode it read, and the two values when it began
NoObs ==
    [matchCalls |-> 0, scoreCalls |-> 0, thresholds |-> {}, debugReads |-> {},
     minAtEntry |-> Zero, debugAtEntry |-> FALSE]

\* no utility function is called on its own
NoCall == [fn |-> "none"]

NewImprovedSearcher(its, minSim, debug) ==
    /\ items = its
    /\ searchIndex = [k \in 1..Len(its) |-> NewSearchIndex(its[k])]
    /\ debugMode = debug
    /\ minSimilarity = minSim

Init ==
    /\ \E its \in Datasets, minSim \in MinSimilarityChoices, debug \in BOOLEAN :
           NewImprovedSearcher(its, minSim, debug)
    /\ pc = [p \in Callers |-> "idle"]
    /\ req = [p \in Callers |-> NoRequest]
    /\ candidates = [p \in Callers |-> <<>>]
    /\ results = [p \in Callers |-> <<>>]
    /\ i = [p \in Callers |-> 0]
    /\ topN = [p \in Callers |-> 0]
    /\ responses = [p \in Callers |-> <<>>]
    /\ outcome = [p \in Callers |-> <<>>]
    /\ obs = [p \in Callers |-> NoObs]
    /\ call = NoCall

(***************************************************************************)
(* Engine operations other than Search.                                    *)
(***************************************************************************)
\* filterItems without the filter
filterItemsUnfiltered(filter) == searchIndex

filterItems(filter) ==
    IF filter = <<>> THEN searchIndex
    ELSE SelectSeq(searchIndex, LAMBDA idx : Matches(filter[1], idx.Item))

GetItemCount == Len(items)

GetMinSimilarity == minSimilarity

SetMinSimilarity(value) ==
    /\ minSimilarity' = value
    /\ UNCHANGED <<items, searchIndex, debugMode>>
    /\ UNCHANGED <<locals, call>>

SetDebugMode(debug) ==
    /\ debugMode' = debug
    /\ UNCHANGED <<items, searchIndex, minSimilarity>>
    /\ UNCHANGED <<locals, call>>

(***************************************************************************)
(* Search, one action per stretch of code between two reads of the         *)
(* engine's mutable fields.                                                *)
(***************************************************************************)
\* QueryIsEmpty without TrimSpace
QueryIsEmptyUntrimmed(query) == query = <<>>

QueryIsEmpty(query) == TrimSpaceIsEmpty(query)

ErrQueryEmpty ==
    <<"Q", "u", "e", "r", "y", " ", "c", "a", "n", "n", "o", "t", " ", "b", "e", " ",
      "e", "m", "p", "t", "y">>

\* NoCandidatesMessage that never names the filter
NoCandidatesMessageGeneric(filter) ==
    <<"N", "o", " ", "i", "t", "e", "m", "s", " ", "f", "o", "u", "n", "d", " ",
      "m", "a", "t", "c", "h", "i", "n", "g", " ", "t", "h", "e", " ", "f", "i",
      "l", "t", "e", "r", " ", "c", "r", "i", "t", "e", "r", "i", "a">>

NoCandidatesMessage(filter) ==
    IF filter # <<>>
    THEN <<"N", "o", " ", "i", "t", "e", "m", "s", " ", "f", "o", "u", "n", "d", " ",
           "m", "a", "t", "c", "h", "i", "n", "g", " ", "f", "i", "l", "t", "e", "r",
           ":", " ">> \o Description(filter[1])
    ELSE <<"N", "o", " ", "i", "t", "e", "m", "s", " ", "f", "o", "u", "n", "d", " ",
           "m", "a", "t", "c", "h", "i", "n", "g", " ", "t", "h", "e", " ", "f", "i",
           "l", "t", "e", "r", " ", "c", "r", "i", "t", "e", "r", "i", "a">>

NoMatchesMessage(query) ==
    <<"N", "o", " ", "m", "a", "t", "c", "h", "e", "s", " ", "f", "o", "u", "n", "d",
      " ", "f", "o", "r", " ", "'">> \o query \o <<"'">>

RankMessage(rank, score) ==
    <<"R", "a", "n", "k", " ">> \o FormatInt(rank) \o <<" ", "w", "i", "t", "h", " ">>
      \o FormatFloat2(Percent(score))
      \o <<"%", " ", "s", "i", "m", "i", "l", "a", "r", "i", "t", "y">>

BestMessage(score) ==
    <<"F", "o", "u", "n", "d", " ", "i", "t", "e", "m", " ", "w", "i", "t", "h", " ">>
      \o FormatFloat2(Percent(score))
      \o <<"%", " ", "s", "i", "m", "i", "l", "a", "r", "i", "t", "y">>

FoundMessage(count, filter, query) ==
    <<"F", "o", "u", "n", "d", " ">> \o FormatInt(count) \o <<" ", "i", "t", "e", "m", "s">>
      \o (IF filter # <<>>
          THEN <<" ", "w", "i", "t", "h", " ", "f", "i", "l", "t", "e", "r", ":", " ">>
                 \o Description(filter[1])
          ELSE <<>>)
      \o <<" ", "m", "a", "t", "c", "h", "i", "n", "g", " ", "'">> \o query \o <<"'">>

\* SearchResponse{Error: message}
ErrorResponse(message) ==
    [Item |-> <<>>, Similarity |-> Zero, Message |-> <<>>, Error |-> message,
     Debug |-> <<>>]

\* CoarseThreshold without the factor 0.5
CoarseThresholdWhole(minSim) == minSim

CoarseThreshold(minSim) == RMul(minSim, Frac(5, 10))

PassesThreshold(components, minSim) ==
    RLeq(CoarseThreshold(minSim), components.FinalScore)

\* sort.Slice with less = (score_i > score_j) is not stable: every order of the
\* slice in which no element precedes one of strictly higher score
RECURSIVE OrdersOf(_, _)
OrdersOf(rs, left) ==
    IF left = {} THEN {<<>>}
    ELSE UNION {{<<rs[k]>> \o rest : rest \in OrdersOf(rs, left \ {k})} :
                k \in {k \in left : \A m \in left : ~RLess(rs[k].score, rs[m].score)}}

\* SortedOrders without the sort
SortedOrdersUnsorted(rs) == {rs}

SortedOrders(rs) == OrdersOf(rs, 1..Len(rs))

\* ClampTopN without the upper limit of 10
ClampTopNUnlimited(requested, found) ==
    LET asked == IF requested = <<>> THEN 1
                 ELSE IF requested[1] < 1 THEN 1
                 ELSE requested[1]
    IN  IF asked > found THEN found ELSE asked

ClampTopN(requested, found) ==
    LET asked == IF requested = <<>> THEN 1
                 ELSE IF requested[1] < 1 THEN 1
                 ELSE IF requested[1] > 10 THEN 10
                 ELSE requested[1]
    IN  IF asked > found THEN found ELSE asked

DebugWanted(request, engineDebug) ==
    engineDebug \/ (request.Debug # <<>> /\ request.Debug[1])

\* the SearchResponse built for one scoredResult
MatchResponse(request, cands, result, message) ==
    [Item |-> <<cands[result.index].Item>>,
     Similarity |-> result.score,
     Message |-> message,
     Error |-> <<>>,
     Debug |-> IF DebugWanted(request, debugMode)
               THEN <<[QueryNormalized |-> normalizeText(request.Query),
                       ScoreComponents |-> result.components,
                       FilteredCandidates |-> Len(cands),
                       TotalCandidates |-> Len(searchIndex)]>>
               ELSE <<>>]

MultiResponse(request, cands, resps) ==
    [Results |-> resps,
     Query |-> request.Query,
     TotalFound |-> Len(cands),
     Filters |-> request.Filters,
     Message |-> FoundMessage(Len(cands), request.Filters, request.Query)]

\* the scoredResult of candidate k
ScoredResult(k, components) ==
    [index |-> k, score |-> components.FinalScore, components |-> components]

\* the threshold test does not write to the engine (the mutant stores the
\* halved threshold in the engine's field)
ThresholdTestLowersEngine ==
    /\ minSimilarity' = RMul(minSimilarity, Frac(5, 10))
    /\ UNCHANGED <<items, searchIndex, debugMode>>

ThresholdTestEffect == UNCHANGED <<items, searchIndex, debugMode, minSimilarity>>

\* lines 133-165: validation, query preparation, filtering
SearchBegin(p, request) ==
    /\ pc[p] = "idle"
    /\ req' = [req EXCEPT ![p] = request]
    /\ IF QueryIsEmpty(request.Query)
       THEN /\ outcome' = [outcome EXCEPT ![p] = <<ErrorResponse(ErrQueryEmpty)>>]
            /\ pc' = [pc EXCEPT ![p] = "done"]
            /\ obs' = [obs EXCEPT ![p] = [NoObs EXCEPT !.minAtEntry = minSimilarity,
                                                      !.debugAtEntry = debugMode]]
            /\ UNCHANGED <<candidates, i>>
       ELSE /\ obs' = [obs EXCEPT ![p] =
                          [NoObs EXCEPT !.minAtEntry = minSimilarity,
                                        !.debugAtEntry = debugMode,
                                        !.matchCalls = IF request.Filters = <<>> THEN 0
                                                       ELSE Len(searchIndex)]]
            /\ candidates' = [candidates EXCEPT ![p] = filterItems(request.Filters)]
            /\ IF filterItems(request.Filters) = <<>>
               THEN /\ outcome' = [outcome EXCEPT ![p] =
                           <<ErrorResponse(NoCandidatesMessage(request.Filters))>>]
                    /\ pc' = [pc EXCEPT ![p] = "done"]
                    /\ UNCHANGED i
               ELSE /\ pc' = [pc EXCEPT ![p] = "score"]
                    /\ i' = [i EXCEPT ![p] = 1]
                    /\ UNCHANGED outcome
    /\ UNCHANGED <<results, topN, responses, call>>
    /\ UNCHANGED engine

\* lines 167-186: one iteration of the scoring loop
SearchScore(p) ==
    /\ pc[p] = "score"
    /\ i[p] <= Len(candidates[p])
    /\ LET components == ScoreFor(candidates[p][i[p]], req[p].Query)
       IN  /\ results' = [results EXCEPT ![p] =
                  IF PassesThreshold(components, minSimilarity)
                  THEN Append(results[p], ScoredResult(i[p], components))
                  ELSE results[p]]
           /\ obs' = [obs EXCEPT ![p].scoreCalls = @ + 1,
                                 ![p].thresholds = @ \cup {minSimilarity}]
    /\ i' = [i EXCEPT ![p] = @ + 1]
    /\ UNCHANGED <<pc, req, candidates, topN, responses, outcome, call>>
    /\ ThresholdTestEffect

\* lines 188-212 and 249-266: sort, clamp topN, and the outcomes without a loop
SearchRank(p) ==
    /\ pc[p] = "score"
    /\ i[p] > Len(candidates[p])
    /\ \E sorted \in SortedOrders(results[p]) :
         LET n == ClampTopN(req[p].TopN, Len(sorted))
         IN  /\ results' = [results EXCEPT ![p] = sorted]
             /\ topN' = [topN EXCEPT ![p] = n]
             /\ IF n = 0
                THEN /\ outcome' = [outcome EXCEPT ![p] =
                            <<ErrorResponse(NoMatchesMessage(req[p].Query))>>]
                     /\ pc' = [pc EXCEPT ![p] = "done"]
                     /\ UNCHANGED <<i, obs>>
                ELSE IF n > 1
                THEN /\ pc' = [pc EXCEPT ![p] = "respond"]
                     /\ i' = [i EXCEPT ![p] = 1]
                     /\ UNCHANGED <<outcome, obs>>
                ELSE /\ outcome' = [outcome EXCEPT ![p] =
                            <<MatchResponse(req[p], candidates[p], sorted[1],
                                            BestMessage(sorted[1].score))>>]
                     /\ obs' = [obs EXCEPT ![p].debugReads = @ \cup {debugMode}]
                     /\ pc' = [pc EXCEPT ![p] = "done"]
                     /\ UNCHANGED i
    /\ UNCHANGED <<req, candidates, responses, call>>
    /\ UNCHANGED engine

\* lines 216-247: one iteration of the response loop; the last one returns
SearchRespond(p) ==
    /\ pc[p] = "respond"
    /\ i[p] <= topN[p]
    /\ LET result == results[p][i[p]]
           response == MatchResponse(req[p], candidates[p], result,
                                    RankMessage(i[p], result.score))
           all == Append(responses[p], response)
       IN  /\ responses' = [responses EXCEPT ![p] = all]
           /\ obs' = [obs EXCEPT ![p].debugReads = @ \cup {debugMode}]
           /\ IF i[p] = topN[p]
              THEN /\ outcome' = [outcome EXCEPT ![p] = <<MultiResponse(req[p], candidates[p], all)>>]
                   /\ pc' = [pc EXCEPT ![p] = "done"]
                   /\ UNCHANGED i
              ELSE /\ i' = [i EXCEPT ![p] = @ + 1]
                   /\ UNCHANGED <<pc, outcome>>
    /\ UNCHANGED <<req, candidates, results, topN, call>>
    /\ UNCHANGED engine

\* the caller has the returned value; the call's locals are gone
SearchReturn(p) ==
    /\ pc[p] = "done"
    /\ pc' = [pc EXCEPT ![p] = "idle"]
    /\ req' = [req EXCEPT ![p] = NoRequest]
    /\ candidates' = [candidates EXCEPT ![p] = <<>>]
    /\ results' = [results EXCEPT ![p] = <<>>]
    /\ i' = [i EXCEPT ![p] = 0]
    /\ topN' = [topN EXCEPT ![p] = 0]
    /\ responses' = [responses EXCEPT ![p] = <<>>]
    /\ outcome' = [outcome EXCEPT ![p] = <<>>]
    /\ obs' = [obs EXCEPT ![p] = NoObs]
    /\ UNCHANGED <<engine, call>>

Search(p) ==
    \/ \E request \in Requests : SearchBegin(p, request)
    \/ SearchScore(p)
    \/ SearchRank(p)
    \/ SearchRespond(p)
    \/ SearchReturn(p)

(***************************************************************************)
(* Specifications.                                                         *)
(***************************************************************************)
\* one caller, one call after the other
Next == Search("c1")

Spec == Init /\ [][Next]_vars

\* the concurrent specifications draw from fewer requests and datasets
FewRequests ==
    [Query : {<<" ", "\t">>, <<"l", "o", "t", "r">>, GetSearchText(RingsBook)},
     Filters : {<<>>, <<GenreFilter(Fantasy)>>},
     TopN : {<<2>>},
     Debug : {<<>>}]

SearchFew(p) ==
    \/ \E request \in FewRequests : SearchBegin(p, request)
    \/ SearchScore(p)
    \/ SearchRank(p)
    \/ SearchRespond(p)
    \/ SearchReturn(p)

\* the two books of the README's example
FewItems == {GoBook, RingsBook}

InitFew == Init /\ \A k \in 1..Len(items) : items[k] \in FewItems

\* one caller, and another goroutine calling the setters at any time
NextSetters ==
    \/ SearchFew("c1")
    \/ \E value \in MinSimilarityChoices : SetMinSimilarity(value)
    \/ \E debug \in BOOLEAN : SetDebugMode(debug)

SpecSetters == InitFew /\ [][NextSetters]_vars

\* two callers at once, no setter
NextConcurrent == \E p \in Callers : SearchFew(p)

SpecConcurrent == InitFew /\ [][NextConcurrent]_vars

(***************************************************************************)
(* calculateScore called on its own, on one index entry and one prepared   *)
(* query.  Search calls it only after the empty-query check, so every      *)
(* query here has a character that is no space.                            *)
(***************************************************************************)
\* the engine of the specifications that call one utility function
IdleEngine ==
    /\ pc = [p \in Callers |-> "idle"]
    /\ req = [p \in Callers |-> NoRequest]
    /\ candidates = [p \in Callers |-> <<>>]
    /\ results = [p \in Callers |-> <<>>]
    /\ i = [p \in Callers |-> 0]
    /\ topN = [p \in Callers |-> 0]
    /\ responses = [p \in Callers |-> <<>>]
    /\ outcome = [p \in Callers |-> <<>>]
    /\ obs = [p \in Callers |-> NoObs]

ScoreTexts ==
    {<<>>,
     <<"y">>,
     <<"G", "o">>,
     <<"b", " ", "a">>,
     <<"B", "i", "g", " ", "A", "p", "p", "l", "e">>,
     <<"a", "b", "c", "d">>,
     <<"a", "b", "c", "d", "e", "f", "g", "h", "i", "j", "k">>,
     <<"-", "-", "-", "-", "-", "-", "-", "-", "-", "-", "-">>}

ScoreQueries ==
    {<<"x">>,
     <<"G", "o">>,
     <<"a", "-", "b">>,
     <<"B", " ", "A">>,
     <<"b", "i", "g">>,
     <<"a", "b", "c", "x">>,
     <<"a", "b", "c", "d", "e", "f", "g", "h", "i", "j", "k">>,
     <<"-", "-", "-", "-", "-", "-", "-", "-", "-", "-", "-">>,
     <<"y", " ">>}

InitScore ==
    /\ NewImprovedSearcher(<<>>, Frac(3, 10), FALSE)
    /\ IdleEngine
    /\ \E text \in ScoreTexts, query \in ScoreQueries :
           call = [fn |-> "calculateScore",
                   idx |-> NewSearchIndex(Book(text, Word)),
                   query |-> PrepareQuery(query),
                   out |-> <<>>]

\* lines 169-177: the call of calculateScore in Search's loop
ScoreCall ==
    /\ call.fn = "calculateScore"
    /\ call.out = <<>>
    /\ call' = [call EXCEPT !.out =
                   <<calculateScore(call.idx, call.query.lowercaseQuery,
                                    call.query.queryWords, call.query.queryWordSet,
                                    call.query.queryTrigrams, call.query.queryBigrams,
                                    call.query.queryAcronym)>>]
    /\ UNCHANGED <<engine, locals>>

NextScore == ScoreCall

SpecScore == InitScore /\ [][NextScore]_vars

(***************************************************************************)
(* calculateLevenshteinDistance called on its own, on the pairs of three   *)
(* strings.                                                                *)
(***************************************************************************)
MaxLen == 3

Alphabet == {"a", "b"}

\* every string over Alphabet of at most MaxLen characters
Strings == UNION {[1..k -> Alphabet] : k \in 0..MaxLen}

InitLevenshtein ==
    /\ NewImprovedSearcher(<<>>, Frac(3, 10), FALSE)
    /\ IdleEngine
    /\ \E a \in Strings, b \in Strings, c \in Strings :
           call = [fn |-> "calculateLevenshteinDistance",
                   a |-> a, b |-> b, c |-> c, out |-> <<>>]

LevenshteinCall ==
    /\ call.fn = "calculateLevenshteinDistance"
    /\ call.out = <<>>
    /\ call' = [call EXCEPT !.out =
                   <<[ab |-> calculateLevenshteinDistance(call.a, call.b),
                      ba |-> calculateLevenshteinDistance(call.b, call.a),
                      bc |-> calculateLevenshteinDistance(call.b, call.c),
                      ac |-> calculateLevenshteinDistance(call.a, call.c),
                      aa |-> calculateLevenshteinDistance(call.a, call.a),
                      aEmpty |-> calculateLevenshteinDistance(call.a, <<>>),
                      emptyA |-> calculateLevenshteinDistance(<<>>, call.a)]>>]
    /\ UNCHANGED <<engine, locals>>

NextLevenshtein == LevenshteinCall

SpecLevenshtein == InitLevenshtein /\ [][NextLevenshtein]_vars

(***************************************************************************)
(* createCharNgrams called on its own, on a text that is also the text of  *)
(* the engine's one item.                                                  *)
(***************************************************************************)
MaxText == 3

\* a letter, a space and the padding character itself
TextAlphabet == {"a", " ", "#"}

Texts == UNION {[1..k -> TextAlphabet] : k \in 0..MaxText}

\* the two widths NewImprovedSearcher and Search ask for
Widths == {2, 3}

InitNgrams ==
    /\ IdleEngine
    /\ \E text \in Texts, n \in Widths :
           /\ NewImprovedSearcher(<<Book(text, Word)>>, Frac(3, 10), FALSE)
           /\ call = [fn |-> "createCharNgrams", text |-> text, n |-> n, out |-> <<>>]

NgramsCall ==
    /\ call.fn = "createCharNgrams"
    /\ call.out = <<>>
    /\ call' = [call EXCEPT !.out = <<createCharNgrams(call.text, call.n)>>]
    /\ UNCHANGED <<engine, locals>>

NextNgrams == NgramsCall

SpecNgrams == InitNgrams /\ [][NextNgrams]_vars

(***************************************************************************)
(* Search run without interruption: the set of values it can return (one   *)
(* per order sort.Slice may leave equal scores in).                        *)
(***************************************************************************)
SearchOutcomeFor(request, cands, sorted) ==
    LET n == ClampTopN(request.TopN, Len(sorted))
    IN  IF n = 0 THEN ErrorResponse(NoMatchesMessage(request.Query))
        ELSE IF n > 1
        THEN MultiResponse(request, cands,
                 [k \in 1..n |-> MatchResponse(request, cands, sorted[k],
                                               RankMessage(k, sorted[k].score))])
        ELSE MatchResponse(request, cands, sorted[1], BestMessage(sorted[1].score))

SearchOutcomes(request) ==
    IF QueryIsEmpty(request.Query) THEN {ErrorResponse(ErrQueryEmpty)}
    ELSE LET cands == filterItems(request.Filters)
             scored == [k \in 1..Len(cands) |->
                           ScoredResult(k, ScoreFor(cands[k], request.Query))]
             kept == SelectSeq(scored,
                         LAMBDA r : PassesThreshold(r.components, minSimilarity))
         IN  IF cands = <<>>
             THEN {ErrorResponse(NoCandidatesMessage(request.Filters))}
             ELSE {SearchOutcomeFor(request, cands, sorted) : sorted \in SortedOrders(kept)}

(***************************************************************************)
(* Vocabulary of the properties.                                           *)
(***************************************************************************)
Returned(p) == pc[p] = "done"

IsMulti(o) == "Results" \in DOMAIN o

\* the matches an outcome carries: SearchResponse values with an item
MatchesOf(o) ==
    IF IsMulti(o)
    THEN {o.Results[k] : k \in 1..Len(o.Results)}
    ELSE IF o.Item # <<>> THEN {o} ELSE {}

IsErrorOutcome(o) == ~IsMulti(o) /\ o.Item = <<>> /\ o.Error # <<>>

Blank(query) == \A k \in 1..Len(query) : query[k] = " " \/ query[k] = "\t"

InDataset(item) == \E k \in 1..Len(items) : items[k] = item

Half(x) == RMul(x, Frac(1, 2))

(***************************************************************************)
(* C1: every item an outcome of Search carries is an item of the dataset   *)
(* that the request's filter accepts; without a filter the candidates are  *)
(* all the items of the dataset, in order.                                 *)
(***************************************************************************)
C1_FilterRespected ==
    \A p \in Callers :
        /\ Returned(p) =>
              \A m \in MatchesOf(outcome[p][1]) :
                  /\ m.Item # <<>>
                  /\ InDataset(m.Item[1])
                  /\ req[p].Filters # <<>> => Matches(req[p].Filters[1], m.Item[1])
        /\ (pc[p] \in {"score", "respond"} /\ req[p].Filters = <<>>) =>
              [k \in 1..Len(candidates[p]) |-> candidates[p][k].Item] = items

\* a match was returned under a filter that rejects another item of the dataset
C1_Witness ==
    \E p \in Callers :
        /\ Returned(p)
        /\ req[p].Filters # <<>>
        /\ MatchesOf(outcome[p][1]) # {}
        /\ \E k \in 1..Len(items) : ~Matches(req[p].Filters[1], items[k])

(***************************************************************************)
(* C2: for a non-empty query with at least one surviving candidate, the    *)
(* result count k is topN (1 when absent) clamped to [1,10] and then to    *)
(* the number of survivors; k = 1 gives a single result with an item,      *)
(* k > 1 a multi-result with exactly k entries; no topN gives an error.    *)
(***************************************************************************)
C2_Expected(requested, survivors) ==
    LET asked == IF requested = <<>> THEN 1 ELSE requested[1]
        lower == IF asked < 1 THEN 1 ELSE asked
        upper == IF lower > 10 THEN 10 ELSE lower
    IN  IF upper > survivors THEN survivors ELSE upper

C3_Survives(p, k) ==
    RLeq(Half(minSimilarity), ScoreFor(candidates[p][k], req[p].Query).FinalScore)

C3_WitnessNone ==
    \E p \in Callers :
        /\ Returned(p)
        /\ candidates[p] # <<>>
        /\ results[p] = <<>>
        /\ IsErrorOutcome(outcome[p][1])

(***************************************************************************)
(* C4: the survivors are ranked by final score, highest first: the         *)
(* similarities of a multi-result never increase down the list, and no     *)
(* survivor left out (an entry of results beyond the returned ones) scores *)
(* higher than a returned match, so a single result carries a maximum.     *)
(***************************************************************************)
C4_RankedDescending ==
    \A p \in Callers :
        (Returned(p) /\ MatchesOf(outcome[p][1]) # {}) =>
            LET o == outcome[p][1]
                given == IF IsMulti(o) THEN o.Results ELSE <<o>>
            IN  /\ \A k \in 1..(Len(given) - 1) :
                      RLeq(given[k + 1].Similarity, given[k].Similarity)
                /\ Len(given) <= Len(results[p])
                /\ \A k \in 1..Len(given) :
                      /\ given[k].Item = <<candidates[p][results[p][k].index].Item>>
                      /\ given[k].Similarity = results[p][k].score
                /\ \A k \in 1..Len(given) :
                      \A m \in (Len(given) + 1)..Len(results[p]) :
                          RLeq(results[p][m].score, given[k].Similarity)

\* a multi-result that leaves survivors out and whose order is not the dataset's
C4_Witness ==
    \E p \in Callers :
        /\ Returned(p)
        /\ IsMulti(outcome[p][1])
        /\ Len(results[p]) > Len(outcome[p][1].Results)
        /\ \E k \in 1..(Len(results[p]) - 1) : results[p][k].index > results[p][k + 1].index
        /\ \E k \in 1..(Len(outcome[p][1].Results) - 1) :
               RLess(outcome[p][1].Results[k + 1].Similarity,
                     outcome[p][1].Results[k].Similarity)

(***************************************************************************)
(* C5: a call whose query is empty or only whitespace returns the error    *)
(* "Query cannot be empty" without item, and runs no later stage: Matches  *)
(* is never invoked and nothing is scored.                                 *)
(***************************************************************************)
C5_Message ==
    <<"Q", "u", "e", "r", "y", " ", "c", "a", "n", "n", "o", "t", " ", "b", "e", " ",
      "e", "m", "p", "t", "y">>

C5_EmptyQuery ==
    \A p \in Callers :
        (pc[p] # "idle" /\ Blank(req[p].Query)) =>
            /\ Returned(p)
            /\ ~IsMulti(outcome[p][1])
            /\ outcome[p][1].Error = C5_Message
            /\ outcome[p][1].Item = <<>>
            /\ obs[p].matchCalls = 0
            /\ obs[p].scoreCalls = 0
            /\ candidates[p] = <<>>
            /\ results[p] = <<>>

\* a whitespace query with a filter on an engine that has items
C5_Witness ==
    \E p \in Callers :
        /\ Returned(p)
        /\ req[p].Query # <<>>
        /\ Blank(req[p].Query)
        /\ req[p].Filters # <<>>
        /\ items # <<>>

(***************************************************************************)
(* C6: for a non-empty query, when no item passes the filter stage, the    *)
(* outcome is an error without item and nothing is scored; the message     *)
(* contains the filter's Description() when a filter was supplied, and is  *)
(* "No items found matching the filter criteria" otherwise.                *)
(***************************************************************************)
C6_Generic ==
    <<"N", "o", " ", "i", "t", "e", "m", "s", " ", "f", "o", "u", "n", "d", " ",
      "m", "a", "t", "c", "h", "i", "n", "g", " ", "t", "h", "e", " ", "f", "i",
      "l", "t", "e", "r", " ", "c", "r", "i", "t", "e", "r", "i", "a">>

C6_NothingPasses(p) ==
    \A k \in 1..Len(items) :
        req[p].Filters # <<>> /\ ~Matches(req[p].Filters[1], items[k])

C6_NoCandidates ==
    \A p \in Callers :
        (pc[p] # "idle" /\ ~Blank(req[p].Query) /\ C6_NothingPasses(p)) =>
            /\ Returned(p)
            /\ IsErrorOutcome(outcome[p][1])
            /\ obs[p].scoreCalls = 0
            /\ results[p] = <<>>
            /\ IF req[p].Filters # <<>>
               THEN Contains(outcome[p][1].Error, Description(req[p].Filters[1]))
               ELSE outcome[p][1].Error = C6_Generic

\* a filter rejected every item of a non-empty dataset
C6_Witness ==
    \E p \in Callers :
        /\ Returned(p)
        /\ ~Blank(req[p].Query)
        /\ req[p].Filters # <<>>
        /\ items # <<>>
        /\ C6_NothingPasses(p)
        /\ obs[p].matchCalls = Len(items)

\* no filter and an empty dataset
C6_WitnessGeneric ==
    \E p \in Callers :
        /\ Returned(p)
        /\ ~Blank(req[p].Query)
        /\ req[p].Filters = <<>>
        /\ items = <<>>

(***************************************************************************)
(* C7: a query equal to an item's own text scores that item exactly 1.0    *)
(* when the text has at most 10 characters, and for longer text at least   *)
(* as high as every other candidate.                                       *)
(***************************************************************************)
C7_Scored(p) == pc[p] = "score" /\ i[p] > Len(candidates[p])

C7_SelfQueryBest ==
    \A p \in Callers :
        C7_Scored(p) =>
            \A k \in 1..Len(candidates[p]) :
                GetSearchText(candidates[p][k].Item) = req[p].Query =>
                    LET self == ScoreFor(candidates[p][k], req[p].Query).FinalScore
                    IN  IF Len(req[p].Query) <= 10
                        THEN self = One
                        ELSE \A m \in 1..Len(candidates[p]) :
                                 RLeq(ScoreFor(candidates[p][m], req[p].Query).FinalScore,
                                      self)

(***************************************************************************)
(* C8: for the query "lotr" and the item "The Lord of the Rings", the      *)
(* item's stored acronym is "lotr" and the acronym component of its score  *)
(* is 0.8.                                                                 *)
(***************************************************************************)
C8_AcronymFires ==
    \A p \in Callers :
        (pc[p] = "score" /\ req[p].Query = <<"l", "o", "t", "r">>) =>
            \A k \in 1..Len(candidates[p]) :
                candidates[p][k].Item = RingsBook =>
                    /\ candidates[p][k].Acronym = <<"l", "o", "t", "r">>
                    /\ ScoreFor(candidates[p][k], req[p].Query).AcronymMatch = Frac(8, 10)

(***************************************************************************)
(* C9: a Search that runs while the setters are called tests every         *)
(* candidate against the minSimilarity of the moment the call began, and   *)
(* decides the debug detail of every result by the debugMode of that       *)
(* moment.                                                                 *)
(***************************************************************************)
C9_ReadOnce ==
    \A p \in Callers :
        /\ obs[p].thresholds \subseteq {obs[p].minAtEntry}
        /\ obs[p].debugReads \subseteq {obs[p].debugAtEntry}

\* the same, for the threshold alone and for the debug flag alone
C9_ThresholdReadOnce ==
    \A p \in Callers : obs[p].thresholds \subseteq {obs[p].minAtEntry}

C9_DebugReadOnce ==
    \A p \in Callers : obs[p].debugReads \subseteq {obs[p].debugAtEntry}

(***************************************************************************)
(* C10: no step of Search changes the engine (items, searchIndex,          *)
(* minSimilarity, debugMode; GetItemCount therefore stays the number of    *)
(* items), and with no setter running, every call among concurrent calls   *)
(* returns a value it can return when it runs alone.                       *)
(***************************************************************************)
C10_SearchReadOnly ==
    /\ [][/\ UNCHANGED <<items, searchIndex, minSimilarity, debugMode>>
          /\ GetItemCount' = GetItemCount]_vars
    /\ [](\A p \in Callers :
             /\ Len(searchIndex) = GetItemCount
             /\ Returned(p) => outcome[p][1] \in SearchOutcomes(req[p]))

\* a call returned matches while the other call was in one of its loops
C10_Witness ==
    \E p \in Callers, q \in Callers :
        /\ p # q
        /\ Returned(p)
        /\ MatchesOf(outcome[p][1]) # {}
        /\ pc[q] \in {"score", "respond"}
        /\ i[q] > 1

(***************************************************************************)
(* C11: for a query that is not empty and any index entry, each of the     *)
(* eight components calculateScore computes lies in [0,1], and so does the *)
(* FinalScore it returns, the x1.1 bonus being clamped to 1.0.             *)
(***************************************************************************)
ComponentNames ==
    {"ExactMatch", "PrefixMatch", "WordMatch", "SubstringMatch",
     "TrigramSimilarity", "BigramSimilarity", "AcronymMatch", "LevenshteinSim"}

Scored == call.fn = "calculateScore" /\ call.out # <<>>

C11_InUnit(x) == x.d > 0 /\ 0 <= x.n /\ x.n <= x.d

C11_ScoresInUnit ==
    (Scored /\ call.query.lowercaseQuery # <<>>) =>
        /\ \A f \in ComponentNames : C11_InUnit(call.out[1][f])
        /\ C11_InUnit(call.out[1].FinalScore)

\* an exact match of more than 10 characters whose weighted mean is below 1:
\* the x1.1 bonus would take it above 1, and it is returned as 1
C11_Witness ==
    /\ Scored
    /\ Len(call.query.lowercaseQuery) > 10
    /\ call.out[1].ExactMatch = One
    /\ call.out[1].PrefixMatch = Frac(9, 10)
    /\ RLeq(Frac(8, 10), call.out[1].WordMatch)
    /\ IsPositive(call.out[1].SubstringMatch)
    /\ call.out[1].FinalScore = One

(***************************************************************************)
(* C12: calculateScore weighs exact 1.0, prefix 0.9, word 0.85, substring  *)
(* 0.75, trigram 0.6, bigram 0.4, acronym 0.7, levenshtein 0.5; only the   *)
(* components above 0 enter the weighted sum and the weight total; the     *)
(* base score is their quotient, and FinalScore is 0 without any bonus     *)
(* when no component is above 0; otherwise the base score is first set to  *)
(* 1.0 when the query has at most 10 characters and exact match fired,     *)
(* then multiplied by 1.1 and clamped to 1.0 when word match >= 0.8 and    *)
(* substring match > 0.                                                    *)
(***************************************************************************)
C12_Weight ==
    [ExactMatch |-> Frac(10, 10), PrefixMatch |-> Frac(9, 10),
     WordMatch |-> Frac(85, 100), SubstringMatch |-> Frac(75, 100),
     TrigramSimilarity |-> Frac(6, 10), BigramSimilarity |-> Frac(4, 10),
     AcronymMatch |-> Frac(7, 10), LevenshteinSim |-> Frac(5, 10)]

C12_Positive(c) == {f \in ComponentNames : RLess(Zero, c[f])}

\* the sum of term[f] over the names f of a set
RECURSIVE C12_Sum(_, _)
C12_Sum(names, term) ==
    IF names = {} THEN Zero
    ELSE LET f == CHOOSE f \in names : TRUE
         IN  RAdd(term[f], C12_Sum(names \ {f}, term))

C12_Base(c) ==
    RDiv(C12_Sum(C12_Positive(c), [f \in ComponentNames |-> RMul(C12_Weight[f], c[f])]),
         C12_Sum(C12_Positive(c), C12_Weight))

C12_Expected(c, queryLength) ==
    IF C12_Positive(c) = {} THEN Zero
    ELSE LET forced == IF queryLength <= 10 /\ c.ExactMatch = One THEN One
                       ELSE C12_Base(c)
             raised == RMul(forced, Frac(11, 10))
         IN  IF RLeq(Frac(8, 10), c.WordMatch) /\ RLess(Zero, c.SubstringMatch)
             THEN IF RLess(One, raised) THEN One ELSE raised
             ELSE forced

C12_WeightedMean ==
    Scored =>
        call.out[1].FinalScore
            = C12_Expected(call.out[1], Len(call.query.lowercaseQuery))

\* some components are 0 and some are not, no bonus applies, and the score
\* is the mean of the positive ones alone, above the mean over all eight
C12_Witness ==
    /\ Scored
    /\ C12_Positive(call.out[1]) \notin {{}, ComponentNames}
    /\ Cardinality(C12_Positive(call.out[1])) >= 2
    /\ call.out[1].ExactMatch = Zero
    /\ RLess(call.out[1].WordMatch, Frac(8, 10))
    /\ call.out[1].FinalScore = C12_Base(call.out[1])
    /\ RLess(RDiv(C12_Sum(ComponentNames,
                          [f \in ComponentNames |-> RMul(C12_Weight[f], call.out[1][f])]),
                  C12_Sum(ComponentNames, C12_Weight)),
             call.out[1].FinalScore)

\* no component is above 0 and the score is 0
C12_WitnessZero ==
    /\ Scored
    /\ C12_Positive(call.out[1]) = {}
    /\ call.out[1].FinalScore = Zero

\* the x1.1 bonus applies to a score below 1/1.1 and is not clamped
C12_WitnessRaised ==
    /\ Scored
    /\ call.out[1].ExactMatch = Zero
    /\ RLeq(Frac(8, 10), call.out[1].WordMatch)
    /\ IsPositive(call.out[1].SubstringMatch)
    /\ call.out[1].FinalScore = RMul(C12_Base(call.out[1]), Frac(11, 10))
    /\ RLess(call.out[1].FinalScore, One)

(***************************************************************************)
(* C13: for all strings a, b, c over a bounded alphabet and length,        *)
(* calculateLevenshteinDistance gives distance(a,b) = distance(b,a),       *)
(* distance(a,a) = 0, distance(a,"") = len(a), distance(a,c) <=            *)
(* distance(a,b) + distance(b,c), and distance(a,b) is the least number of *)
(* insertions, deletions and substitutions of one character that turn a    *)
(* into b.                                                                 *)
(***************************************************************************)
Measured == call.fn = "calculateLevenshteinDistance" /\ call.out # <<>>

C13_Without(s, k) == SubSeq(s, 1, k - 1) \o SubSeq(s, k + 1, Len(s))

\* t is s after one insertion, one deletion or one substitution
C13_OneEdit(s, t) ==
    \/ /\ Len(t) = Len(s)
       /\ Cardinality({k \in 1..Len(s) : s[k] # t[k]}) = 1
    \/ /\ Len(t) = Len(s) + 1
       /\ \E k \in 1..Len(t) : C13_Without(t, k) = s
    \/ /\ Len(s) = Len(t) + 1
       /\ \E k \in 1..Len(s) : C13_Without(s, k) = t

\* the number of rounds of single edits after which b is reached; a shortest
\* edit sequence needs no string longer than the longer of its two ends
RECURSIVE C13_Steps(_, _, _)
C13_Steps(reached, b, k) ==
    IF b \in reached THEN k
    ELSE C13_Steps(reached \cup {t \in Strings : \E s \in reached : C13_OneEdit(s, t)},
                   b, k + 1)

C13_EditDistance ==
    Measured =>
        /\ call.out[1].ab = call.out[1].ba
        /\ call.out[1].aa = 0
        /\ call.out[1].aEmpty = Len(call.a)
        /\ call.out[1].emptyA = Len(call.a)
        /\ call.out[1].ac <= call.out[1].ab + call.out[1].bc
        /\ call.out[1].ab = C13_Steps({call.a}, call.b, 0)

\* the matrix was filled: a and b differ, neither is empty, and the distance
\* is below both lengths because a substitution and a kept character are used
C13_Witness ==
    /\ Measured
    /\ call.a # call.b
    /\ Len(call.a) = MaxLen
    /\ Len(call.b) = MaxLen - 1
    /\ call.out[1].ab = 2
    /\ call.out[1].ac = call.out[1].ab + call.out[1].bc
    /\ call.out[1].bc > 0

(***************************************************************************)
(* C14: for every text, the empty one and those shorter than n included,   *)
(* and n in {2,3}, createCharNgrams returns a set that is not empty: {text}*)
(* when the text has fewer than n characters, otherwise exactly the        *)
(* substrings of n characters of the text padded with n-1 '#' on both      *)
(* ends; so the bigram and trigram sets of every index entry and of every  *)
(* query are not empty, and scoring never takes the Jaccard similarity of  *)
(* an empty set.                                                           *)
(***************************************************************************)
Split == call.fn = "createCharNgrams" /\ call.out # <<>>

C14_Padded(text, n) == [k \in 1..(n - 1) |-> "#"] \o text \o [k \in 1..(n - 1) |-> "#"]

C14_Expected(text, n) ==
    IF Len(text) < n THEN {text}
    ELSE {g \in [1..n -> TextAlphabet] : Contains(C14_Padded(text, n), g)}

C14_NgramsNeverEmpty ==
    /\ Split =>
          /\ call.out[1] # {}
          /\ call.out[1] = C14_Expected(call.text, call.n)
          /\ PrepareQuery(call.text).queryBigrams # {}
          /\ PrepareQuery(call.text).queryTrigrams # {}
    /\ \A k \in 1..Len(searchIndex) :
          /\ searchIndex[k].Bigrams # {}
          /\ searchIndex[k].Trigrams # {}

\* the empty text: its only n-gram is the empty string, in the index too
C14_Witness ==
    /\ Split
    /\ call.text = <<>>
    /\ call.n = 2
    /\ call.out[1] = {<<>>}
    /\ Len(searchIndex) = 1
    /\ searchIndex[1].Bigrams = {<<>>}
    /\ searchIndex[1].Trigrams = {<<>>}

\* a text of n characters or more: padded, and equal substrings counted once
C14_WitnessPadded ==
    /\ Split
    /\ call.text = <<"a", "a", "a">>
    /\ call.n = 2
    /\ call.out[1] = {<<"#", "a">>, <<"a", "a">>, <<"a", "#">>}

====
